---- MODULE Spec2Model ----
(***************************************************************************)
(* Model of src/main.py: the naive and the guarded plan/act/check agent    *)
(* loops (run_naive_agent_loop, run_guarded_agent_loop), the DemoState     *)
(* metrics they update and the random source they draw from.               *)
(*                                                                         *)
(* Python floats are IEEE-754 doubles.  A double d with 0 <= d < 4 is kept *)
(* exactly, as the integer d * 2^57 split into three 20-bit limbs          *)
(* [h, m, l] (value = h * 2^40 + m * 2^20 + l), and every float addition   *)
(* rounds to 53 significant bits, ties to even, as the hardware does.      *)
(***************************************************************************)
EXTENDS Integers, Sequences, FiniteSets, TLC

\* ------------------------------------------------------------------------
\* Bounds of the model
\* ------------------------------------------------------------------------
\* largest max_attempts argument explored
MaxAttemptsBound == 10

\* largest explicit fail_streak_stop argument explored, from -1 on; the
\* value max_attempts + 1 (a threshold no streak can reach) is always added
MaxStop == 3

\* largest max_attempts of the seeded replay harness (SpecEquiv)
MaxEquivAttempts == 2

\* ------------------------------------------------------------------------
\* IEEE-754 double arithmetic on three 20-bit limbs, unit 2^-57
\* ------------------------------------------------------------------------
Limb == 2 ^ 20

F(h, m, l) == [h |-> h, m |-> m, l |-> l]

\* carry propagation after a limb-wise operation
Normalize(h, m, l) ==
    LET l1 == l % Limb
        m0 == m + (l \div Limb)
        m1 == m0 % Limb
        h1 == h + (m0 \div Limb)
    IN  F(h1, m1, l1)

\* a < b on doubles
FLess(a, b) ==
    \/ a.h < b.h
    \/ a.h = b.h /\ a.m < b.m
    \/ a.h = b.h /\ a.m = b.m /\ a.l < b.l

FLeq(a, b) == ~ FLess(b, a)

\* Python's min(a, b): a, unless b < a
FMin(a, b) == IF FLess(b, a) THEN b ELSE a

\* the spacing of doubles (in units of 2^-57) in the binade of x
Ulp(x) ==
    IF x.h >= 262144 THEN 64         \* [2, 4)
    ELSE IF x.h >= 131072 THEN 32    \* [1, 2)
    ELSE IF x.h >= 65536 THEN 16     \* [0.5, 1)
    ELSE IF x.h >= 32768 THEN 8      \* [0.25, 0.5)
    ELSE IF x.h >= 16384 THEN 4      \* [0.125, 0.25)
    ELSE IF x.h >= 8192 THEN 2       \* [0.0625, 0.125)
    ELSE 1

\* round an exact value to the nearest double, ties to even
RoundToDouble(x) ==
    LET u  == Ulp(x)
        q  == x.l \div u
        r  == x.l % u
        up == (2 * r > u) \/ (2 * r = u /\ q % 2 = 1)
    IN  Normalize(x.h, x.m, (IF up THEN q + 1 ELSE q) * u)

\* a + b on doubles
FAdd(a, b) == RoundToDouble(Normalize(a.h + b.h, a.m + b.m, a.l + b.l))

\* f"{x:.2f}": the decimal with two places nearest to x (ties to even),
\* returned as the integer number of hundredths
Format2f(x) ==
    LET y    == Normalize(200 * x.h, 200 * x.m, 200 * x.l)   \* 200 * x, exact
        q    == y.h \div 131072                               \* floor(200 * x)
        rest == (y.h % 131072 # 0) \/ y.m # 0 \/ y.l # 0
        c    == q \div 2
    IN  IF q % 2 = 0 THEN c
        ELSE IF rest THEN c + 1
        ELSE IF c % 2 = 1 THEN c + 1 ELSE c

\* the float literals of the program
F_0_0 == F(0, 0, 0)

F_0_35 == F(45875, 209715, 209712)

F_0_06 == F(7864, 335544, 335544)

F_0_10 == F(13107, 209715, 209716)

F_0_12 == F(15728, 671088, 671088)

F_0_95 == F(124518, 419430, 419424)

F_0_99 == F(129761, 293601, 293600)

F_0_65 == F(85196, 838860, 838864)

\* ------------------------------------------------------------------------
\* The random module
\* ------------------------------------------------------------------------
\* values a draw can take: random.random() in hundredths, 0 <= r < 100
Draws == {2, 30, 60, 80}

\* values of the draws of a seeded generator explored by SpecEquiv
TapeDraws == {2, 60}

\* success_probability, in hundredths
success_probability == 5

\* random.choice(seq) for a draw r: the item at index floor(r * len / 100)
random_choice(seq, r) == seq[((r * Len(seq)) \div 100) + 1]

\* ------------------------------------------------------------------------
\* The program
\* ------------------------------------------------------------------------
VARIABLES
    fn,               \* the loop being run: "naive" or "guarded"
    max_attempts,     \* argument of the loop
    fail_streak_stop, \* argument of the guarded loop
    tape,             \* the generator's output once seeded; << >> if unseeded
    rpos,             \* position of the next draw on the tape
    i,                \* number of iterations the for statement has started
    state,            \* the DemoState of the run
    fail_streak,      \* local of the guarded loop
    plan,             \* locals of the loop body
    action,
    success,
    result,
    pc,               \* position in the loop
    status,           \* how the run has ended, "RUNNING" until it has
    checks,           \* history: the verdicts of the checks of this run
    snapshots,        \* history: the DemoState printed by each STATE line
    decisions,        \* history: the DECISION lines printed by this run
    prev              \* SpecEquiv: what the finished naive run went through

vars == <<fn, max_attempts, fail_streak_stop, tape, rpos, i, state,
          fail_streak, plan, action, success, result, pc, status, checks,
          snapshots, decisions, prev>>

\* DemoState()
DemoState ==
    [attempts |-> 0, total_cost |-> F_0_0, confidence |-> F_0_35,
     last_result |-> "UNKNOWN"]

plans ==
    << "Try the most likely fix first.",
       "Make a small change and re-check.",
       "Assume the last approach was close and retry.",
       "Proceed with a quick patch and validate." >>

actions ==
    << "Apply patch A (fast).",
       "Apply patch A again (confidence up).",
       "Apply patch A with tiny tweak.",
       "Reformat and retry (low effort)." >>

pretend_plan(s, r) == random_choice(plans, r)

\* state.confidence > 0.65: pretend_act returns before it uses the generator
Overconfident(s) == FLess(F_0_65, s.confidence)

pretend_act(s, r) ==
    IF Overconfident(s)
    THEN "Apply patch A again (overconfident repeat)."
    ELSE random_choice(actions, r)

pretend_check(s, r) ==
    IF r < success_probability
    THEN <<TRUE, "PASS (unexpected)">>
    ELSE <<FALSE, "FAIL (root cause unchanged)">>

\* variant: the cost is charged only for a failed attempt
update_state_CostOnFailure(s, succ, res) ==
    [attempts    |-> s.attempts + 1,
     last_result |-> res,
     total_cost  |-> IF succ THEN s.total_cost
                     ELSE FAdd(s.total_cost, F_0_12),
     confidence  |-> IF succ
                     THEN FMin(F_0_99, FAdd(s.confidence, F_0_10))
                     ELSE FMin(F_0_95, FAdd(s.confidence, F_0_06))]

\* variant: the success branch forgets its ceiling
update_state_NoCeiling(s, succ, res) ==
    [attempts    |-> s.attempts + 1,
     last_result |-> res,
     total_cost  |-> FAdd(s.total_cost, F_0_12),
     confidence  |-> IF succ
                     THEN FAdd(s.confidence, F_0_10)
                     ELSE FMin(F_0_95, FAdd(s.confidence, F_0_06))]

\* variant: a failed attempt puts the confidence back to its initial value
update_state_ResetOnFailure(s, succ, res) ==
    [attempts    |-> s.attempts + 1,
     last_result |-> res,
     total_cost  |-> FAdd(s.total_cost, F_0_12),
     confidence  |-> IF succ
                     THEN FMin(F_0_99, FAdd(s.confidence, F_0_10))
                     ELSE F_0_35]

update_state_after_attempt(s, succ, res) ==
    [attempts    |-> s.attempts + 1,
     last_result |-> res,
     total_cost  |-> FAdd(s.total_cost, F_0_12),
     confidence  |-> IF succ
                     THEN FMin(F_0_99, FAdd(s.confidence, F_0_10))
                     ELSE FMin(F_0_95, FAdd(s.confidence, F_0_06))]

\* for _ in range(max_attempts): is there another iteration
\* variant: one iteration too many
RangeHasNext_OffByOne(k, n) == k <= n

RangeHasNext(k, n) == k < n

\* the guarded loop's bookkeeping of the streak
\* variant: a success does not reset the streak
NextFailStreak_NoReset(fs, succ) == IF succ THEN fs ELSE fs + 1

NextFailStreak(fs, succ) == IF succ THEN 0 ELSE fs + 1

\* Guardrail: stop early if it's repeating failure
\* variant: the threshold is compared strictly
GuardrailFires_Strict(fs, stop) == fs > stop

GuardrailFires(fs, stop) == fs >= stop

\* variant: the success message is printed but the loop is not left
NaiveDecision_NoReturn(succ) ==
    IF succ THEN [pc |-> "for", status |-> "DONE"]
    ELSE [pc |-> "for", status |-> "RUNNING"]

\* where the naive loop goes after its STATE line
NaiveDecision(succ) ==
    IF succ THEN [pc |-> "done", status |-> "DONE"]
    ELSE [pc |-> "for", status |-> "RUNNING"]

\* variant: the hand-off is printed but the loop is not left
GuardedDecision_NoReturn(succ, fs, stop) ==
    IF GuardrailFires(fs, stop)
    THEN [pc |-> "for", status |-> "ESCALATED"]
    ELSE [pc |-> "for", status |-> "RUNNING"]

\* where the guarded loop goes after its STATE line
GuardedDecision(succ, fs, stop) ==
    IF GuardrailFires(fs, stop)
    THEN [pc |-> "done", status |-> "ESCALATED"]
    ELSE [pc |-> "for", status |-> "RUNNING"]

StopLine == "Stop and ask a human (repeated failures)."

ContinueLine == "Continue (but monitor)."

\* the DECISION lines of an iteration of the naive loop: it prints none
NaiveDecisionLines(succ) == << >>

\* variant: the hand-off falls through to the line of the normal path
GuardedDecisionLines_FallThrough(succ, fs, stop) ==
    IF GuardrailFires(fs, stop)
    THEN <<StopLine, ContinueLine>>
    ELSE <<ContinueLine>>

\* the DECISION lines of an iteration of the guarded loop
GuardedDecisionLines(succ, fs, stop) ==
    IF GuardrailFires(fs, stop)
    THEN <<StopLine>>
    ELSE <<ContinueLine>>

\* ------------------------------------------------------------------------
\* Initial states
\* ------------------------------------------------------------------------
NoRun == [snapshots |-> << >>, status |-> "NONE", attempts |-> 0]

StopValues(n) == (-1 .. MaxStop) \cup {n + 1}

\* the state at the entry of a loop function
Entry(f, n, stop) ==
    /\ fn = f
    /\ max_attempts = n
    /\ fail_streak_stop = stop
    /\ i = 0
    /\ state = DemoState
    /\ fail_streak = 0
    /\ plan = ""
    /\ action = ""
    /\ success = FALSE
    /\ result = ""
    /\ pc = "for"
    /\ status = "RUNNING"
    /\ checks = << >>
    /\ snapshots = << >>
    /\ decisions = << >>

\* a call of either loop with an unseeded generator
Init ==
    /\ tape = << >>
    /\ rpos = 1
    /\ prev = NoRun
    /\ \E n \in 0 .. MaxAttemptsBound :
          \/ Entry("naive", n, 0)
          \/ \E stop \in StopValues(n) : Entry("guarded", n, stop)

\* ------------------------------------------------------------------------
\* The generator
\* ------------------------------------------------------------------------
seeded == tape # << >>

\* r is the next draw: what the seed fixed, anything if unseeded
IsDraw(r) == IF seeded THEN rpos <= Len(tape) /\ r = tape[rpos] ELSE TRUE

Advance == rpos' = IF seeded THEN rpos + 1 ELSE rpos

\* ------------------------------------------------------------------------
\* The steps of a loop
\* ------------------------------------------------------------------------
\* the for statement: start the next iteration, or fall out of the loop
For ==
    /\ pc = "for"
    /\ IF RangeHasNext(i, max_attempts)
       THEN /\ i' = i + 1
            /\ pc' = "plan"
            /\ status' = status
       ELSE /\ i' = i
            /\ pc' = "done"
            /\ status' = "EXHAUSTED"
    /\ UNCHANGED <<fn, max_attempts, fail_streak_stop, tape, rpos, state,
                   fail_streak, plan, action, success, result, checks,
                   snapshots, decisions, prev>>

Plan ==
    /\ pc = "plan"
    /\ \E r \in Draws :
          /\ IsDraw(r)
          /\ plan' = pretend_plan(state, r)
    /\ Advance
    /\ pc' = "act"
    /\ UNCHANGED <<fn, max_attempts, fail_streak_stop, tape, i, state,
                   fail_streak, action, success, result, status, checks,
                   snapshots, decisions, prev>>

Act ==
    /\ pc = "act"
    /\ IF Overconfident(state)
       THEN /\ action' = pretend_act(state, 0)
            /\ rpos' = rpos
       ELSE /\ \E r \in Draws :
                  /\ IsDraw(r)
                  /\ action' = pretend_act(state, r)
            /\ Advance
    /\ pc' = "check"
    /\ UNCHANGED <<fn, max_attempts, fail_streak_stop, tape, i, state,
                   fail_streak, plan, success, result, status, checks,
                   snapshots, decisions, prev>>

Check ==
    /\ pc = "check"
    /\ \E r \in Draws :
          /\ IsDraw(r)
          /\ success' = pretend_check(state, r)[1]
          /\ result' = pretend_check(state, r)[2]
    /\ Advance
    /\ checks' = Append(checks, success')
    /\ pc' = "update"
    /\ UNCHANGED <<fn, max_attempts, fail_streak_stop, tape, i, state,
                   fail_streak, plan, action, status, snapshots, decisions,
                   prev>>

\* update_state_after_attempt, the streak, and the STATE line
Update ==
    /\ pc = "update"
    /\ state' = update_state_after_attempt(state, success, result)
    /\ fail_streak' = IF fn = "guarded"
                      THEN NextFailStreak(fail_streak, success)
                      ELSE fail_streak
    /\ snapshots' = Append(snapshots, state')
    /\ pc' = "decide"
    /\ UNCHANGED <<fn, max_attempts, fail_streak_stop, tape, rpos, i, plan,
                   action, success, result, status, checks, decisions,
                   prev>>

Decide ==
    /\ pc = "decide"
    /\ LET d == IF fn = "naive"
                THEN NaiveDecision(success)
                ELSE GuardedDecision(success, fail_streak, fail_streak_stop)
       IN  /\ pc' = d.pc
           /\ status' = d.status
    /\ decisions' = decisions \o
          (IF fn = "naive"
           THEN NaiveDecisionLines(success)
           ELSE GuardedDecisionLines(success, fail_streak, fail_streak_stop))
    /\ UNCHANGED <<fn, max_attempts, fail_streak_stop, tape, rpos, i, state,
                   fail_streak, plan, action, success, result, checks,
                   snapshots, prev>>

Next == For \/ Plan \/ Act \/ Check \/ Update \/ Decide

Spec == Init /\ [][Next]_vars

\* the loops are sequential code: a step that can be taken is taken
FairSpec == Spec /\ WF_vars(Next)

\* ------------------------------------------------------------------------
\* The seeded replay harness: random.seed(s), the naive loop, random.seed(s)
\* again, the guarded loop with a threshold no streak can reach
\* ------------------------------------------------------------------------
TapeLen == 3 * MaxEquivAttempts

InitEquiv ==
    /\ tape \in [1 .. TapeLen -> TapeDraws]
    /\ rpos = 1
    /\ prev = NoRun
    /\ \E n \in 0 .. MaxEquivAttempts :
          \E stop \in {n + 1, n + 2} : Entry("naive", n, stop)

\* the naive run is over: keep what it went through, seed the generator
\* again and call the guarded loop with the same max_attempts
Replay ==
    /\ pc = "done"
    /\ fn = "naive"
    /\ seeded
    /\ prev' = [snapshots |-> snapshots, status |-> status,
                attempts |-> state.attempts]
    /\ rpos' = 1
    /\ fn' = "guarded"
    /\ i' = 0
    /\ state' = DemoState
    /\ fail_streak' = 0
    /\ plan' = ""
    /\ action' = ""
    /\ success' = FALSE
    /\ result' = ""
    /\ pc' = "for"
    /\ status' = "RUNNING"
    /\ checks' = << >>
    /\ snapshots' = << >>
    /\ decisions' = << >>
    /\ UNCHANGED <<max_attempts, fail_streak_stop, tape>>

NextEquiv == Next \/ Replay

SpecEquiv == InitEquiv /\ [][NextEquiv]_vars

\* ------------------------------------------------------------------------
\* Properties
\* ------------------------------------------------------------------------
Terminal == {"DONE", "ESCALATED", "EXHAUSTED"}

\* the positions inside an iteration before its check has been accounted for
InBody == {"plan", "act", "check", "update"}

\* number of consecutive failed checks at the end of a sequence of verdicts
RECURSIVE TrailingFails(_)
TrailingFails(cs) ==
    IF cs = << >> \/ cs[Len(cs)] THEN 0
    ELSE 1 + TrailingFails(SubSeq(cs, 1, Len(cs) - 1))

AnySuccess(cs) == \E k \in 1 .. Len(cs) : cs[k]

\* C1: in both loops attempts never exceeds max_attempts; it is the number
\* of completed iterations (0 at the start, one more per iteration).
C1_AttemptsBounded ==
    /\ state.attempts <= max_attempts
    /\ state.attempts = IF pc \in InBody THEN i - 1 ELSE i

C1_Witness ==
    /\ state.attempts = max_attempts
    /\ max_attempts >= 3
    /\ pc = "done"

\* C2: every run of either loop leaves RUNNING and ends in exactly one of
\* DONE, ESCALATED, EXHAUSTED, and nothing happens after that.
C2_Terminates ==
    /\ [](status \in Terminal \cup {"RUNNING"})
    /\ (status = "RUNNING") ~> (status \in Terminal)
    /\ [][(status \in Terminal) => (vars' = vars)]_vars

C2_Witness ==
    /\ status = "ESCALATED"
    /\ pc = "done"
    /\ state.attempts >= 2

\* C3: in both loops an iteration whose check succeeds halts the loop with
\* status DONE; nothing runs after the first successful check.
C3_SuccessHalts ==
    \A k \in 1 .. Len(checks) :
        checks[k] =>
            /\ k = Len(checks)
            /\ pc \notin {"update", "decide"} =>
                   (status = "DONE" /\ pc = "done")

\* C4: the naive loop never escalates; it ends DONE on a success, also on
\* the final attempt, and EXHAUSTED only when all max_attempts checks failed.
C4_NaiveHalts ==
    fn = "naive" =>
        /\ status # "ESCALATED"
        /\ status = "EXHAUSTED" =>
               (~ AnySuccess(checks) /\ Len(checks) = max_attempts)
        /\ status = "DONE" => (checks # << >> /\ checks[Len(checks)])
        /\ (pc = "done") = (status \in {"DONE", "EXHAUSTED"})

C4_Witness ==
    /\ fn = "naive"
    /\ status = "DONE"
    /\ state.attempts = max_attempts
    /\ max_attempts >= 2

\* C5: total_cost never decreases from one STATE line to the next, and to
\* the cent (as the STATE line prints it) it is 0.12 times attempts.
C5_CostPerAttempt ==
    /\ Format2f(state.total_cost) = 12 * state.attempts
    /\ \A k \in 1 .. Len(snapshots) :
          /\ Format2f(snapshots[k].total_cost) = 12 * k
          /\ k > 1 => FLess(snapshots[k - 1].total_cost,
                            snapshots[k].total_cost)

C5_Witness ==
    /\ state.attempts >= 4
    /\ AnySuccess(checks)
    /\ ~ checks[Len(checks)]

\* C6: confidence stays between its initial value 0.35 and 0.99.
C6_ConfidenceRange ==
    /\ FLeq(F_0_35, state.confidence)
    /\ FLeq(state.confidence, F_0_99)

C6_Witness ==
    /\ state.confidence = F_0_99
    /\ state.attempts >= 7

\* C7: with the same draws and a threshold above max_attempts the guarded
\* loop goes through the snapshots of the naive loop and ends as it does.
C7_NaiveIsGuardedDisabled ==
    (fn = "guarded" /\ prev.status # "NONE") =>
        /\ Len(snapshots) <= Len(prev.snapshots)
        /\ snapshots = SubSeq(prev.snapshots, 1, Len(snapshots))
        /\ pc = "done" =>
               (snapshots = prev.snapshots /\ status = prev.status)

\* C9: in the guarded loop, once an iteration is accounted for, fail_streak
\* is the number of consecutive failed checks ending there, at most attempts.
C9_FailStreak ==
    (fn = "guarded" /\ pc # "update") =>
        /\ fail_streak = TrailingFails(checks)
        /\ fail_streak <= state.attempts
        /\ (pc = "decide" /\ success) => fail_streak = 0

C9_Witness ==
    /\ fn = "guarded"
    /\ pc = "decide"
    /\ fail_streak = 2
    /\ AnySuccess(checks)

\* C10: for fail_streak_stop >= 1 the guarded loop escalates exactly at the
\* first iteration ending a streak of fail_streak_stop failures, every
\* iteration starts below the threshold, and a streak completed on the last
\* attempt gives ESCALATED, not EXHAUSTED.
C10_Escalation ==
    (fn = "guarded" /\ fail_streak_stop >= 1) =>
        /\ \A k \in 1 .. Len(checks) - 1 :
              TrailingFails(SubSeq(checks, 1, k)) < fail_streak_stop
        /\ status = "ESCALATED" =>
              TrailingFails(checks) = fail_streak_stop
        /\ (pc \notin {"update", "decide"}
              /\ TrailingFails(checks) >= fail_streak_stop) =>
              status = "ESCALATED"
        /\ pc \in {"plan", "act", "check"} => fail_streak < fail_streak_stop
        /\ status = "EXHAUSTED" =>
              TrailingFails(checks) < fail_streak_stop

C10_Witness ==
    /\ fn = "guarded"
    /\ status = "ESCALATED"
    /\ fail_streak_stop >= 2
    /\ state.attempts = max_attempts
    /\ AnySuccess(checks)

\* C11: success is decided before the failure streak: for any
\* fail_streak_stop, an iteration of the guarded loop whose check succeeded
\* does not end with the decision to stop and ask a human.
C11_SuccessBeforeStreak ==
    fn = "guarded" =>
        \A k \in 1 .. Len(decisions) :
            (k <= Len(checks) /\ checks[k]) => decisions[k] # StopLine

\* C12: in the guarded loop every completed iteration prints exactly one
\* DECISION line, and the iteration that escalates prints only the stop line.
C12_OneDecisionLine ==
    fn = "guarded" =>
        /\ Len(decisions) = IF pc \in InBody \cup {"decide"} THEN i - 1 ELSE i
        /\ \A k \in 1 .. Len(decisions) :
              decisions[k] = StopLine =>
                  (k = Len(decisions) /\ status = "ESCALATED")
        /\ status = "ESCALATED" =>
              (decisions # << >> /\ decisions[Len(decisions)] = StopLine)

C12_Witness ==
    /\ fn = "guarded"
    /\ status = "ESCALATED"
    /\ Len(decisions) >= 3
    /\ decisions[Len(decisions)] = StopLine

\* C13: a failed attempt never lowers confidence: in either loop the
\* confidence printed after a failed check is at least the one before it.
C13_FailureKeepsConfidence ==
    \A k \in 1 .. Len(snapshots) :
        (k <= Len(checks) /\ ~ checks[k]) =>
            FLeq(IF k = 1 THEN DemoState.confidence
                 ELSE snapshots[k - 1].confidence,
                 snapshots[k].confidence)

\* C14 as stated: in the guarded loop a Continue decision is always followed
\* by another iteration; the run that stops for max_attempts did not print
\* Continue in its last iteration.
C14_ContinueIsFollowed ==
    (fn = "guarded" /\ decisions # << >>
        /\ decisions[Len(decisions)] = ContinueLine) =>
        /\ pc # "done"
        /\ status # "EXHAUSTED"

\* C14 amended: in the guarded loop a Continue decision is followed by
\* another iteration exactly when fewer than max_attempts iterations have
\* run; the last permitted iteration, unless it escalates, prints Continue
\* and the run then stops for max_attempts.
C14_ContinueUnlessLast ==
    fn = "guarded" =>
        /\ (pc \in InBody \cup {"decide"} /\ i > 1) =>
               decisions[i - 1] = ContinueLine
        /\ (pc = "for" /\ i > 0) =>
               /\ decisions[i] = ContinueLine
               /\ i <= max_attempts
        /\ (pc = "done" /\ decisions # << >>
               /\ decisions[Len(decisions)] = ContinueLine) =>
               (Len(decisions) = max_attempts /\ status = "EXHAUSTED")
        /\ (status = "EXHAUSTED" /\ max_attempts > 0) =>
               /\ Len(decisions) = max_attempts
               /\ decisions[Len(decisions)] = ContinueLine

C14_Witness ==
    /\ fn = "guarded"
    /\ status = "EXHAUSTED"
    /\ max_attempts >= 2
    /\ decisions[Len(decisions)] = ContinueLine
    /\ AnySuccess(checks)

\* C15: overconfidence latches: once confidence is above 0.65 it stays
\* above for the rest of the run, and every act step taken in that condition
\* returns the overconfident repeat, not a random choice.
C15_OverconfidenceLatches ==
    /\ [][Overconfident(state) => Overconfident(state')]_vars
    /\ []((pc = "check" /\ Overconfident(state)) =>
             action = "Apply patch A again (overconfident repeat).")

C15_Witness ==
    /\ pc = "check"
    /\ Overconfident(state)
    /\ state.attempts >= 6
    /\ AnySuccess(checks)
    /\ ~ checks[Len(checks)]
    /\ action = "Apply patch A again (overconfident repeat)."

====
